---- MODULE Spec2Model ----
(***************************************************************************)
(* A model of imSim's sky-catalog interface (src/imsim/skycat.py) and of   *)
(* its ESO sky model (src/python/desc/imsim/skyModel.py).                  *)
(*                                                                         *)
(* Three specifications share the module:                                  *)
(*   Spec          the SkyCatalogInterface: the index built at             *)
(*                 construction and the per-index queries;                 *)
(*   SkySpec       one call of ESOSkyModel.addNoiseAndBackground, step by  *)
(*                 step;                                                   *)
(*   QuantizeSpec  the Sersic-index quantization of getObj, as a pure      *)
(*                 function applied to a range of inputs.                  *)
(*                                                                         *)
(* Numbers.  The code computes in floating point.  The model keeps the     *)
(* quantities the claims are about exact: a Sersic index is a whole number *)
(* of thousandths, a flux weight is a fraction <<num, den>>, counts and    *)
(* sizes are integers.  Transcendental results (the flux exp(-0.4 ln10 m), *)
(* the half-light radius sqrt(a*b)) are carried by their arguments.        *)
(***************************************************************************)
EXTENDS Integers, Sequences, FiniteSets, TLC

VARIABLES
    objects,        \* self.objects: the catalog objects of the region
    _index,         \* self._index: the list of (object index, component)
    flip_g2,        \* self.flip_g2
    ret,            \* the outcome of the query in progress, CatIdle if none
    sky,            \* the state of the addNoiseAndBackground call
    qz              \* the state of the quantization run

vars == <<objects, _index, flip_g2, ret, sky, qz>>

(***************************************************************************)
(* Bounds of the model.                                                    *)
(***************************************************************************)
MaxObjects == 2        \* catalog objects in the region
IndexSlack == 2        \* how far beyond [-N, N) the queried indices reach
MaxSersicMilli == 130  \* Sersic indices are -0.130..0.130 in QuantizeSpec
MaxSide == 2           \* an image is at most MaxSide x MaxSide pixels

(***************************************************************************)
(* Python values.                                                          *)
(***************************************************************************)
\* Python's None, and str(None) in a formatted message.
None == "None"

\* A float that may be infinite: magnorm as get_sed returns it.
PosInf == [kind |-> "posinf", v |-> 0]
NegInf == [kind |-> "neginf", v |-> 0]
Fin(v) == [kind |-> "fin", v |-> v]

\* numpy.isinf
np_isinf(m) == m.kind # "fin"

\* m >= c for a float m that may be infinite and a finite c
FloatGe(m, c) ==
    \/ m.kind = "posinf"
    \/ m.kind = "fin" /\ m.v >= c

\* seq[i] of a Python list: 0-based, a negative i counts from the end, and
\* anything outside [-len, len) raises IndexError.
Subscript(seq, i) ==
    LET n == Len(seq) IN
    IF 0 <= i /\ i < n THEN [ok |-> TRUE, val |-> seq[i + 1]]
    ELSE IF -n <= i /\ i < 0 THEN [ok |-> TRUE, val |-> seq[n + i + 1]]
    ELSE [ok |-> FALSE, val |-> <<-1, None>>]

(***************************************************************************)
(* The catalog: what desc.skycatalogs hands to the interface.              *)
(***************************************************************************)
ObjectTypes == {"star", "galaxy", "sn"}

\* The sub-component lists an object may declare.
SubcomponentLists ==
    {<<>>, <<"bulge", "disk", "knots">>, <<"halo", "disk">>}

CatalogObjects ==
    [object_type : ObjectTypes, subcomponents : SubcomponentLists]

RECURSIVE SeqsUpTo(_, _)
SeqsUpTo(S, n) ==
    IF n = 0 THEN {<<>>}
    ELSE LET shorter == SeqsUpTo(S, n - 1) IN
         shorter \cup {Append(s, x) : s \in {t \in shorter : Len(t) = n - 1}, x \in S}

Catalogs == SeqsUpTo(CatalogObjects, MaxObjects)

\* The values get_sed and get_native_attribute may answer with.
MagVals == {NegInf, PosInf, Fin(49), Fin(50)}
Sizes == {1, 2}
KnotCounts == {-1, 0, 1}
PositionAngles == {30}
SersicSamples == {1012, 4025, 525}

(***************************************************************************)
(* SkyCatalogInterface._index_subcomponents                                *)
(***************************************************************************)
\* for component in subcomponents: self._index.append((i, component))
RECURSIVE AppendComponents(_, _, _)
AppendComponents(idx, i, subcomponents) ==
    IF subcomponents = <<>> THEN idx
    ELSE AppendComponents(Append(idx, <<i, Head(subcomponents)>>), i,
                          Tail(subcomponents))

\* A plausible slip: an object without sub-components gets no entry.
RECURSIVE IndexLoopSkipEmpty(_, _, _)
IndexLoopSkipEmpty(objs, i, idx) ==
    IF i >= Len(objs) THEN idx
    ELSE IndexLoopSkipEmpty(objs, i + 1,
             AppendComponents(idx, i, objs[i + 1].subcomponents))

\* for i, obj in enumerate(self.objects): ...
RECURSIVE IndexLoop(_, _, _)
IndexLoop(objs, i, idx) ==
    IF i >= Len(objs) THEN idx
    ELSE LET declared == objs[i + 1].subcomponents
             subcomponents == IF declared = <<>> THEN <<None>> ELSE declared
         IN  IndexLoop(objs, i + 1, AppendComponents(idx, i, subcomponents))

_index_subcomponents_skip_empty(objs) == IndexLoopSkipEmpty(objs, 0, <<>>)

_index_subcomponents(objs) == IndexLoop(objs, 0, <<>>)

\* getNObjects
getNObjects == Len(_index)

(***************************************************************************)
(* The Sersic-index quantization of getObj: n = round(n*20.)/20.           *)
(* A Sersic index n is m/1000; 20*n is m/50; Python 3's round() rounds to  *)
(* the nearest integer and a tie to the even one; the result r/20 is       *)
(* 50*r thousandths.                                                       *)
(***************************************************************************)
\* round(m/50)
Round50(m) ==
    LET q == m \div 50
        r == m % 50
    IN  IF 2 * r < 50 THEN q
        ELSE IF 2 * r > 50 THEN q + 1
        ELSE IF q % 2 = 0 THEN q ELSE q + 1

\* A plausible slip: int() in place of round(), which drops the fraction.
quantize_truncating(m) ==
    50 * (IF m >= 0 THEN m \div 50 ELSE -((-m) \div 50))

quantize(m) == 50 * Round50(m)

(***************************************************************************)
(* The per-index queries of SkyCatalogInterface.  A query is one action:   *)
(* it resolves the index, asks the catalog object what the code asks, in   *)
(* the code's order, and leaves its outcome in ret.  What the catalog      *)
(* answers (get_sed, get_native_attribute) is an input of the query.       *)
(***************************************************************************)
NoKey == <<-1, None>>
NoMag == [kind |-> "unread", v |-> 0]
NoAttrs == <<>>
NoValue == [kind |-> "novalue"]
PyNone == [kind |-> "None"]

\* What the catalog holds for the entry a getObj call resolves: the sizes of
\* the shape the component uses (the disk's for knots) and n_knots.
NoNative == [size |-> 0, size_minor |-> 0, n_knots |-> 0]
Native(a, b, npoints) == [size |-> a, size_minor |-> b, n_knots |-> npoints]

CatIdle ==
    [op |-> "none", index |-> 0, outcome |-> "none", error |-> "", msg |-> "",
     obj_index |-> -1, component |-> None, magnorm |-> NoMag,
     native |-> NoNative, attrs |-> NoAttrs, value |-> NoValue]

\* The call returned value; native is what the catalog holds for the entry,
\* attrs are the native attributes the call read.
CallReturned(op, index, key, m, native, attrs, value) ==
    [op |-> op, index |-> index, outcome |-> "returned", error |-> "",
     msg |-> "", obj_index |-> key[1], component |-> key[2], magnorm |-> m,
     native |-> native, attrs |-> attrs, value |-> value]

\* The call raised error, whose message names msg.
CallRaised(op, index, key, m, native, attrs, error, msg) ==
    [op |-> op, index |-> index, outcome |-> "raised", error |-> error,
     msg |-> msg, obj_index |-> key[1], component |-> key[2], magnorm |-> m,
     native |-> native, attrs |-> attrs, value |-> NoValue]

Returned(op, index, key, m, attrs, value) ==
    CallReturned(op, index, key, m, NoNative, attrs, value)

Raised(op, index, key, m, attrs, error, msg) ==
    CallRaised(op, index, key, m, NoNative, attrs, error, msg)

\* The indices a caller may pass: every valid one, every negative one that
\* Python accepts, and IndexSlack more on either side.
Indices == (-(Len(_index) + IndexSlack))..(Len(_index) + IndexSlack - 1)

Bands == {"i", "r"}

\* The raw shear_1, shear_2 and convergence of an object, away from the
\* singular convergence 1.
LensFields == {<<0, 0, 0>>, <<1, 0, 3>>}

\* get_skycat_obj
get_skycat_obj ==
    /\ ret = CatIdle
    /\ \E index \in Indices :
         LET key == Subscript(_index, index) IN
         IF ~key.ok
         THEN ret' = Raised("get_skycat_obj", index, NoKey, NoMag, NoAttrs,
                            "IndexError", "")
         ELSE ret' = Returned("get_skycat_obj", index, key.val, NoMag, NoAttrs,
                              [kind |-> "skycat_obj", obj_index |-> key.val[1],
                               obj |-> objects[key.val[1] + 1]])
    /\ UNCHANGED <<objects, _index, flip_g2, sky, qz>>

\* A plausible slip: only +infinity is taken as "no flux".
SED_info_positive_only(m) ==
    IF m.kind = "posinf" THEN <<None, m>> ELSE <<"SED", m>>

\* The pair getSED_info returns for the magnorm that get_sed answered.
SED_info(m) ==
    IF np_isinf(m) THEN <<None, m>> ELSE <<"SED", m>>

\* getSED_info
getSED_info ==
    /\ ret = CatIdle
    /\ \E index \in Indices :
         LET key == Subscript(_index, index) IN
         IF ~key.ok
         THEN ret' = Raised("getSED_info", index, NoKey, NoMag, NoAttrs,
                            "IndexError", "")
         ELSE \E m \in MagVals :
                ret' = Returned("getSED_info", index, key.val, m, NoAttrs,
                                [kind |-> "sed_info", sed |-> SED_info(m)[1],
                                 magnorm |-> SED_info(m)[2]])
    /\ UNCHANGED <<objects, _index, flip_g2, sky, qz>>

\* getWorldPos
getWorldPos ==
    /\ ret = CatIdle
    /\ \E index \in Indices :
         LET key == Subscript(_index, index) IN
         IF ~key.ok
         THEN ret' = Raised("getWorldPos", index, NoKey, NoMag, NoAttrs,
                            "IndexError", "")
         ELSE ret' = Returned("getWorldPos", index, key.val, NoMag, NoAttrs,
                              [kind |-> "CelestialCoord",
                               obj_index |-> key.val[1]])
    /\ UNCHANGED <<objects, _index, flip_g2, sky, qz>>

\* The reduced shears and the magnification, as fractions <<num, den>>.
Lens(gamma1, gamma2, kappa) ==
    [g1 |-> <<gamma1, 1 - kappa>>,
     g2 |-> <<gamma2, 1 - kappa>>,
     mu |-> <<1, (1 - kappa) * (1 - kappa)
                  - (gamma1 * gamma1 + gamma2 * gamma2)>>]

LensAttrs(f) ==
    (<<"shear_1">> :> f[1]) @@ (<<"shear_2">> :> f[2])
        @@ (<<"convergence">> :> f[3])

\* getLens
getLens ==
    /\ ret = CatIdle
    /\ \E index \in Indices :
         LET key == Subscript(_index, index) IN
         IF ~key.ok
         THEN ret' = Raised("getLens", index, NoKey, NoMag, NoAttrs,
                            "IndexError", "")
         ELSE \E f \in LensFields :
                ret' = Returned("getLens", index, key.val, NoMag, LensAttrs(f),
                                [kind |-> "lens",
                                 lens |-> Lens(f[1], f[2], f[3])])
    /\ UNCHANGED <<objects, _index, flip_g2, sky, qz>>

\* getDust
getDust ==
    /\ ret = CatIdle
    /\ \E index \in Indices, band \in Bands :
         LET key == Subscript(_index, index) IN
         IF ~key.ok
         THEN ret' = Raised("getDust", index, NoKey, NoMag, NoAttrs,
                            "IndexError", "")
         ELSE ret' = Returned("getDust", index, key.val, NoMag,
                              (<<"MW_av_lsst_", band>> :> 0) @@ (<<"MW_rv">> :> 3),
                              [kind |-> "dust", internal_av |-> 0,
                               internal_rv |-> 1, galactic_av |-> 0,
                               galactic_rv |-> 3])
    /\ UNCHANGED <<objects, _index, flip_g2, sky, qz>>

(***************************************************************************)
(* getObj.  The checks are operators of their own, in the code's order.    *)
(***************************************************************************)
\* A plausible slip: the test of the threshold left out.
skip_object_infinite_only(sed, magnorm) == sed = None

\* if sed is None or magnorm >= 50: return None
skip_object(sed, magnorm) == sed = None \/ FloatGe(magnorm, 50)

\* skycat_obj.object_type == 'star'
is_star(skycat_obj) == skycat_obj.object_type = "star"

\* A plausible slip: 'knots' left out of the recognized components.
is_galaxy_component_no_knots(skycat_obj, component) ==
    /\ skycat_obj.object_type = "galaxy"
    /\ component \in {"bulge", "disk"}

\* skycat_obj.object_type == 'galaxy' and
\* component in ('bulge', 'disk', 'knots')
is_galaxy_component(skycat_obj, component) ==
    /\ skycat_obj.object_type = "galaxy"
    /\ component \in {"bulge", "disk", "knots"}

\* assert a >= b
axes_ok(a, b) == a >= b

\* A plausible slip: zero knots let through.
knots_ok_nonnegative(npoints) == npoints >= 0

\* assert npoints > 0
knots_ok(npoints) == npoints > 0

\* beta, in degrees
position_angle(pa) == IF flip_g2 THEN 90 - pa ELSE 90 + pa

ShapeAttrs(my_component, a, b) ==
    (<<"size_", my_component, "_true">> :> a)
        @@ (<<"size_minor_", my_component, "_true">> :> b)

\* The object getObj returns: the profile, sheared and lensed if a galaxy,
\* with the flux of magnorm (fAt, times the SED or its flux in the bandpass).
GSObject(profile, shape, lens, magnorm, chromatic) ==
    [kind |-> "GSObject", profile |-> profile, shape |-> shape, lens |-> lens,
     flux_magnorm |-> magnorm.v, chromatic |-> chromatic]

NoShape == [sheared |-> FALSE]
NoLens == [lensed |-> FALSE]

\* galsim.Shear(q=b/a, beta=beta) on a profile of half-light radius
\* (a*b)**0.5, kept as its square
Shape(a, b, pa) ==
    [sheared |-> TRUE, hlr_squared |-> a * b, q |-> <<b, a>>,
     beta |-> position_angle(pa)]

\* getObj
getObj ==
    /\ ret = CatIdle
    /\ \E index \in Indices :
         LET key == Subscript(_index, index) IN
         IF ~key.ok
         THEN ret' = Raised("getObj", index, NoKey, NoMag, NoAttrs,
                            "IndexError", "")
         ELSE
         \E magnorm \in MagVals, a \in Sizes, b \in Sizes,
            npoints \in KnotCounts :
           LET obj_index == key.val[1]
               component == key.val[2]
               skycat_obj == objects[obj_index + 1]
               sed == SED_info(magnorm)[1]
               native == Native(a, b, npoints)
               my_component ==
                   IF component = "knots" THEN "disk" ELSE component
               sizes == ShapeAttrs(my_component, a, b)
           IN
           IF skip_object(sed, magnorm)
           THEN ret' = CallReturned("getObj", index, key.val, magnorm, native,
                                    NoAttrs, PyNone)
           ELSE IF is_star(skycat_obj)
           THEN \E chromatic \in BOOLEAN :
                  ret' = CallReturned("getObj", index, key.val, magnorm,
                             native, NoAttrs,
                             GSObject([type |-> "DeltaFunction"], NoShape,
                                      NoLens, magnorm, chromatic))
           ELSE IF is_galaxy_component(skycat_obj, component)
           THEN
             IF ~axes_ok(a, b)
             THEN ret' = CallRaised("getObj", index, key.val, magnorm, native,
                                    sizes, "AssertionError", "")
             ELSE
             \E pa \in PositionAngles :
               LET shaped == sizes @@ (<<"position_angle_unlensed">> :> pa)
                   knotted == shaped @@ (<<"n_knots">> :> npoints)
               IN
               IF component = "knots"
               THEN
                 IF ~knots_ok(npoints)
                 THEN ret' = CallRaised("getObj", index, key.val, magnorm,
                                        native, knotted, "AssertionError", "")
                 ELSE
                 \E f \in LensFields, chromatic \in BOOLEAN :
                   ret' = CallReturned("getObj", index, key.val, magnorm,
                              native, knotted @@ LensAttrs(f),
                              GSObject([type |-> "RandomKnots",
                                        npoints |-> npoints],
                                       Shape(a, b, pa),
                                       [lensed |-> TRUE,
                                        lens |-> Lens(f[1], f[2], f[3])],
                                       magnorm, chromatic))
               ELSE
                 \E n \in SersicSamples, f \in LensFields,
                    chromatic \in BOOLEAN :
                   ret' = CallReturned("getObj", index, key.val, magnorm,
                              native,
                              shaped @@ (<<"sersic_", component>> :> n)
                                     @@ LensAttrs(f),
                              GSObject([type |-> "Sersic", n |-> quantize(n)],
                                       Shape(a, b, pa),
                                       [lensed |-> TRUE,
                                        lens |-> Lens(f[1], f[2], f[3])],
                                       magnorm, chromatic))
           ELSE ret' = CallRaised("getObj", index, key.val, magnorm, native,
                                  NoAttrs, "RuntimeError", component)
    /\ UNCHANGED <<objects, _index, flip_g2, sky, qz>>

\* The query's outcome goes to the caller (SkyCatObj, SkyCatWorldPos,
\* SkyCatSEDBuilder.buildSED), and the interface is ready for the next one.
ReturnToCaller ==
    /\ ret # CatIdle
    /\ ret' = CatIdle
    /\ UNCHANGED <<objects, _index, flip_g2, sky, qz>>

(***************************************************************************)
(* The states of the other two specifications while this one runs.         *)
(***************************************************************************)
SkyOff == [pc |-> "off"]
QzOff == [pc |-> "off"]

\* SkyCatalogInterface.__init__: the objects of the region, and their index
Init ==
    /\ objects \in Catalogs
    /\ _index = _index_subcomponents(objects)
    /\ flip_g2 \in BOOLEAN
    /\ ret = CatIdle
    /\ sky = SkyOff
    /\ qz = QzOff

Next ==
    \/ get_skycat_obj
    \/ getSED_info
    \/ getWorldPos
    \/ getLens
    \/ getDust
    \/ getObj
    \/ ReturnToCaller

Spec == Init /\ [][Next]_vars

(***************************************************************************)
(* Claims about the index and the per-index queries (Spec).                *)
(***************************************************************************)
PerIndexOps ==
    {"get_skycat_obj", "getWorldPos", "getSED_info", "getLens", "getDust",
     "getObj"}

\* The number of index entries an object is to get.
Width(obj) ==
    IF Len(obj.subcomponents) = 0 THEN 1 ELSE Len(obj.subcomponents)

\* The number of index entries of the first k objects.
RECURSIVE SumWidths(_)
SumWidths(k) == IF k = 0 THEN 0 ELSE SumWidths(k - 1) + Width(objects[k])

\* The query in ret was made with an index in [0, getNObjects()).
ValidCall == ret.op \in PerIndexOps /\ 0 <= ret.index /\ ret.index < getNObjects

\* The object of the entry the query in ret was made for.
EntryObject == objects[_index[ret.index + 1][1] + 1]
EntryComponent == _index[ret.index + 1][2]

Renderable(m) == m.kind = "fin" /\ m.v < 50
Infinite(m) == m.kind \in {"posinf", "neginf"}

\* C1: the index holds, for each object in catalog order, one entry
\* (i, None) if the object declares no sub-component and otherwise one entry
\* (i, c) per declared sub-component c in declaration order, and nothing
\* else: getNObjects() is the sum over the objects of max(1, number of
\* sub-components), and the entries of object i sit at the consecutive
\* indices that follow those of the objects before it.
C1_IndexIsExact ==
    /\ getNObjects = SumWidths(Len(objects))
    /\ DOMAIN _index = 1..getNObjects
    /\ \A i \in 1..Len(objects) :
         LET subs == objects[i].subcomponents
             first == SumWidths(i - 1)
         IN  IF subs = <<>>
             THEN _index[first + 1] = <<i - 1, None>>
             ELSE \A k \in 1..Len(subs) : _index[first + k] = <<i - 1, subs[k]>>

\* An object without sub-components between two objects that declare some.
C1_Witness ==
    /\ Len(objects) = 2
    /\ objects[1].subcomponents = <<>>
    /\ Len(objects[2].subcomponents) = 3
    /\ getNObjects = 4
    /\ ret.op = "get_skycat_obj" /\ ret.index = 3 /\ ret.obj_index = 1

\* C2: a per-index query made with an index outside [0, getNObjects()), a
\* negative one included, raises IndexError and returns nothing.
C2_OutOfRangeRaises ==
    (ret.op \in PerIndexOps /\ (ret.index < 0 \/ ret.index >= getNObjects))
        => (ret.outcome = "raised" /\ ret.error = "IndexError")

\* C3: getObj, for a valid index whose magnorm is infinite or >= 50, returns
\* None and raises nothing; getSED_info returns (None, magnorm) exactly when
\* magnorm is infinite.
C3_SkippedIsNone ==
    /\ (/\ ValidCall /\ ret.op = "getObj"
        /\ (Infinite(ret.magnorm)
              \/ (ret.magnorm.kind = "fin" /\ ret.magnorm.v >= 50)))
         => (ret.outcome = "returned" /\ ret.value.kind = "None")
    /\ (ValidCall /\ ret.op = "getSED_info")
         => /\ ret.outcome = "returned"
            /\ ret.value.magnorm = ret.magnorm
            /\ (ret.value.sed = None) <=> Infinite(ret.magnorm)

\* getObj skipped a galaxy's bulge whose magnorm is -infinity.
C3_Witness ==
    /\ ValidCall /\ ret.op = "getObj"
    /\ ret.magnorm = NegInf
    /\ EntryObject.object_type = "galaxy" /\ EntryComponent = "bulge"
    /\ ret.value.kind = "None"

\* The entry is a star, or a galaxy's bulge, disk or knots.
SupportedEntry ==
    \/ EntryObject.object_type = "star"
    \/ /\ EntryObject.object_type = "galaxy"
       /\ EntryComponent \in {"bulge", "disk", "knots"}

\* C4: getObj, for a valid index with a renderable magnorm, raises the
\* unsupported-kind error, naming the component and returning nothing, if
\* the entry is neither a star nor a galaxy's bulge, disk or knots; and never
\* raises it for an entry that is one.
C4_UnsupportedKind ==
    (ValidCall /\ ret.op = "getObj" /\ Renderable(ret.magnorm))
        => IF SupportedEntry
           THEN ret.error # "RuntimeError"
           ELSE /\ ret.outcome = "raised"
                /\ ret.error = "RuntimeError"
                /\ ret.msg = EntryComponent
                /\ ret.value.kind = "novalue"

\* getObj refused the bulge of an object that is not a galaxy.
C4_Witness ==
    /\ ValidCall /\ ret.op = "getObj" /\ Renderable(ret.magnorm)
    /\ EntryObject.object_type = "sn" /\ EntryComponent = "bulge"
    /\ ret.error = "RuntimeError" /\ ret.msg = "bulge"

\* The entry is a galaxy's bulge, disk or knots whose major axis is smaller
\* than its minor axis, or its knots with n_knots <= 0.
CorruptGalaxyEntry ==
    /\ EntryObject.object_type = "galaxy"
    /\ EntryComponent \in {"bulge", "disk", "knots"}
    /\ \/ ret.native.size < ret.native.size_minor
       \/ EntryComponent = "knots" /\ ret.native.n_knots <= 0

\* C5 as stated: getObj fails with an assertion, and builds no profile, for
\* every such entry.
C5_CorruptEntryAlwaysFails ==
    (ValidCall /\ ret.op = "getObj" /\ CorruptGalaxyEntry)
        => (/\ ret.outcome = "raised"
            /\ ret.error = "AssertionError"
            /\ ret.value.kind = "novalue")

\* C5, amended: getObj fails with an assertion, and builds no profile, for
\* every such entry whose magnorm is renderable (finite and < 50).
C5_CorruptRenderableEntryFails ==
    (/\ ValidCall /\ ret.op = "getObj" /\ CorruptGalaxyEntry
     /\ Renderable(ret.magnorm))
        => (/\ ret.outcome = "raised"
            /\ ret.error = "AssertionError"
            /\ ret.value.kind = "novalue")

\* getObj refused renderable knots with n_knots = 0 and sound axes.
C5_Witness ==
    /\ ValidCall /\ ret.op = "getObj" /\ Renderable(ret.magnorm)
    /\ EntryObject.object_type = "galaxy" /\ EntryComponent = "knots"
    /\ ret.native.size >= ret.native.size_minor /\ ret.native.n_knots = 0
    /\ ret.error = "AssertionError"
    /\ <<"n_knots">> \in DOMAIN ret.attrs

\* The entry's object and component cannot be rendered, or what the catalog
\* holds for it fails one of getObj's assertions.
FaultyEntry ==
    \/ ~SupportedEntry
    \/ ret.native.size < ret.native.size_minor
    \/ ret.native.n_knots <= 0

\* C11: getObj, for a valid index whose magnorm is infinite or >= 50,
\* returns None whatever the entry is: it raises neither the unsupported-kind
\* error nor an assertion, and reads no native attribute (no size, position
\* angle, n_knots, Sersic index, shear or convergence).
C11_SkipComesFirst ==
    (/\ ValidCall /\ ret.op = "getObj"
     /\ (Infinite(ret.magnorm)
           \/ (ret.magnorm.kind = "fin" /\ ret.magnorm.v >= 50)))
        => /\ ret.outcome = "returned"
           /\ ret.error = ""
           /\ ret.value.kind = "None"
           /\ DOMAIN ret.attrs = {}

\* getObj skipped, at magnorm 50, an object that is not a galaxy and whose
\* component, axes and n_knots would each have made it fail.
C11_Witness ==
    /\ ValidCall /\ ret.op = "getObj"
    /\ ret.magnorm = Fin(50)
    /\ EntryObject.object_type = "sn" /\ EntryComponent = "halo"
    /\ ret.native.size < ret.native.size_minor /\ ret.native.n_knots = 0
    /\ FaultyEntry
    /\ ret.outcome = "returned" /\ ret.value.kind = "None"
    /\ ret.attrs = NoAttrs

(***************************************************************************)
(* QuantizeSpec: the quantization applied to a range of Sersic indices,    *)
(* and once more to its own result.                                        *)
(***************************************************************************)
SersicMilli == (-MaxSersicMilli)..MaxSersicMilli

\* n = round(n*20.)/20.
Quantize ==
    /\ qz.pc = "input"
    /\ qz' = [qz EXCEPT !.pc = "quantized", !.q = quantize(qz.n)]
    /\ UNCHANGED <<objects, _index, flip_g2, ret, sky>>

\* the same statement, given its own result
Requantize ==
    /\ qz.pc = "quantized"
    /\ qz' = [qz EXCEPT !.pc = "requantized", !.qq = quantize(qz.q)]
    /\ UNCHANGED <<objects, _index, flip_g2, ret, sky>>

QuantizeInit ==
    /\ objects = <<>>
    /\ _index = _index_subcomponents(objects)
    /\ flip_g2 = TRUE
    /\ ret = CatIdle
    /\ sky = SkyOff
    /\ qz \in [pc : {"input"}, n : SersicMilli, q : {0}, qq : {0}]

QuantizeNext == Quantize \/ Requantize

QuantizeSpec == QuantizeInit /\ [][QuantizeNext]_vars

Abs(x) == IF x < 0 THEN -x ELSE x

\* C10: the quantized Sersic index is a multiple of 0.05 that differs from
\* the index by at most 0.025, and quantizing it again leaves it as it is.
C10_QuantizeIdempotent ==
    /\ qz.pc \in {"quantized", "requantized"}
         => (qz.q % 50 = 0 /\ Abs(qz.q - qz.n) <= 25)
    /\ qz.pc = "requantized" => qz.qq = qz.q

\* 0.075 lies half-way between 0.05 and 0.10 and goes to 0.10, which stays.
C10_Witness ==
    qz.pc = "requantized" /\ qz.n = 75 /\ qz.q = 100 /\ qz.qq = 100

(***************************************************************************)
(* SkySpec: one call of ESOSkyModel.addNoiseAndBackground, statement by    *)
(* statement.  sky.state follows the states of the design: Idle, Computed, *)
(* Accumulated, Noised.  sky.trace lists what has been done to the image   *)
(* and to the photons, in order.                                           *)
(*                                                                         *)
(* With addBackground the call assigns photon_array, draws its x, and then *)
(* reads photon_arra (line 126), a name that is bound nowhere: Python      *)
(* raises NameError there and the call ends.  Lines 127-167 never run      *)
(* (the flux and wavelength assignments, FRatioAngles, SiliconSensor,      *)
(* sensor.accumulate, skyLevel = 0.0), so the model has no step for them.  *)
(***************************************************************************)
\* photons_per_pixel = 100.
photons_per_pixel == 100

PixelLevels == {0, 7}
NoiseDeltas == {-1, 0, 1}

\* The images a caller may pass: ny rows of nx pixels, at one level.
Images ==
    {[ny |-> h, nx |-> w, array |-> [p \in 1..(h * w) |-> level]] :
        h \in 1..MaxSide, w \in 1..MaxSide, level \in PixelLevels}

\* PhotometricParameters: nexp, exptime (s), gain, readnoise
PhotParams ==
    [nexp : {1, 2}, exptime : {15}, gain : {1, 2}, readnoise : {5}]

\* What skyCountsPerSec answers: electrons per pixel and second.
SkyRates == {0, 3}

NoImage == [ny |-> 0, nx |-> 0, array |-> <<>>]
NoPhotons == [N |-> 0, x |-> "none", y |-> "none", flux |-> <<>>]
NoNoiseModel == [sky_level |-> -1, gain |-> -1, read_noise |-> -1]

\* ESOSkyModel.__init__ and the arguments of the call
SkyInit ==
    /\ objects = <<>>
    /\ _index = _index_subcomponents(objects)
    /\ flip_g2 = TRUE
    /\ ret = CatIdle
    /\ qz = QzOff
    /\ sky \in [pc : {"sky_counts"}, state : {"Idle"},
                addNoise : BOOLEAN, addBackground : BOOLEAN,
                image : Images, photParams : PhotParams, rate : SkyRates,
                skyCounts : {-1}, local : {NoImage}, bound : {"caller"},
                photon_array : {NoPhotons}, skyLevel : {-1},
                noiseModel : {NoNoiseModel}, trace : {<<>>}, error : {""}]

\* exposureTime = photParams.nexp*photParams.exptime*u.s
\* skyCounts = skyCountsPerSec(...)*exposureTime
ComputeSkyCounts ==
    /\ sky.pc = "sky_counts"
    /\ LET exposureTime == sky.photParams.nexp * sky.photParams.exptime IN
       sky' = [sky EXCEPT !.skyCounts = sky.rate * exposureTime,
                          !.state = "Computed",
                          !.trace = Append(@, "sky_counts"),
                          !.pc = "copy"]
    /\ UNCHANGED <<objects, _index, flip_g2, ret, qz>>

\* The image object the function's name `image` is bound to: the caller's
\* (the argument) until line 112 binds the name to the copy.
bound_image(sk) == IF sk.bound = "copy" THEN sk.local ELSE sk.image

\* A plausible slip: the copy left out, the name stays on the caller's image.
image_not_copied(sk) == sk

\* image = image.copy()
image_copy(sk) == [sk EXCEPT !.local = sk.image, !.bound = "copy"]

\* image = image.copy(); if self.addBackground: ... else: ...
CopyImage ==
    /\ sky.pc = "copy"
    /\ sky' = [image_copy(sky) EXCEPT
                          !.trace = Append(@, "copy"),
                          !.pc = IF sky.addBackground THEN "photons"
                                 ELSE "sky_level"]
    /\ UNCHANGED <<objects, _index, flip_g2, ret, qz>>

\* galsim.PhotonArray(nphotons): x, y and flux start as zeros
PhotonArray(nphotons) ==
    [N |-> nphotons, x |-> "zeros", y |-> "zeros",
     flux |-> [i \in 1..nphotons |-> <<0, 1>>]]

\* npix = np.prod(image.array.shape); ...; photon_array = PhotonArray(nphotons)
AllocatePhotons ==
    /\ sky.pc = "photons"
    /\ LET npix == bound_image(sky).ny * bound_image(sky).nx
           nphotons == photons_per_pixel * npix
       IN  sky' = [sky EXCEPT !.photon_array = PhotonArray(nphotons),
                              !.trace = Append(@, "photons"),
                              !.pc = "generate_x"]
    /\ UNCHANGED <<objects, _index, flip_g2, ret, qz>>

\* self.randomNumbers.generate(photon_array.x)
GeneratePhotonX ==
    /\ sky.pc = "generate_x"
    /\ sky' = [sky EXCEPT !.photon_array.x = "uniform(0,1)",
                          !.trace = Append(@, "generate_x"),
                          !.pc = "scale_x"]
    /\ UNCHANGED <<objects, _index, flip_g2, ret, qz>>

\* photon_arra.x *= (image.xmax - image.xmin + 1): NameError
ScalePhotonX ==
    /\ sky.pc = "scale_x"
    /\ sky' = [sky EXCEPT !.error = "NameError", !.pc = "raised"]
    /\ UNCHANGED <<objects, _index, flip_g2, ret, qz>>

\* A plausible slip: the gain left out.
sky_level_without_gain(skyCounts, photParams) == skyCounts

\* skyLevel = skyCounts*photParams.gain
sky_level_without_background(skyCounts, photParams) ==
    skyCounts * photParams.gain

\* else: skyLevel = skyCounts*photParams.gain
SetSkyLevel ==
    /\ sky.pc = "sky_level"
    /\ sky' = [sky EXCEPT
                 !.skyLevel = sky_level_without_background(sky.skyCounts,
                                                           sky.photParams),
                 !.pc = "noise"]
    /\ UNCHANGED <<objects, _index, flip_g2, ret, qz>>

\* getNoiseModel: galsim.CCDNoise(self.randomNumbers, sky_level=skyLevel,
\*     gain=photParams.gain, read_noise=photParams.readnoise)
getNoiseModel(skyLevel, photParams) ==
    [sky_level |-> skyLevel, gain |-> photParams.gain,
     read_noise |-> photParams.readnoise]

\* if self.addNoise: noiseModel = self.getNoiseModel(...);
\*                   image.addNoise(noiseModel)
\* The noise changes, in place, each pixel of the image the name is bound to
\* by some amount.
AddNoise ==
    /\ sky.pc = "noise"
    /\ sky.addNoise
    /\ \E delta \in [DOMAIN bound_image(sky).array -> NoiseDeltas] :
         sky' = [sky EXCEPT
                   !.noiseModel = getNoiseModel(sky.skyLevel, sky.photParams),
                   !.local.array =
                       IF sky.bound = "copy"
                       THEN [p \in DOMAIN @ |-> @[p] + delta[p]] ELSE @,
                   !.image.array =
                       IF sky.bound = "caller"
                       THEN [p \in DOMAIN @ |-> @[p] + delta[p]] ELSE @,
                   !.state = "Noised",
                   !.trace = Append(@, "noise"),
                   !.pc = "return"]
    /\ UNCHANGED <<objects, _index, flip_g2, ret, qz>>

\* if self.addNoise: is false
SkipNoise ==
    /\ sky.pc = "noise"
    /\ ~sky.addNoise
    /\ sky' = [sky EXCEPT !.pc = "return"]
    /\ UNCHANGED <<objects, _index, flip_g2, ret, qz>>

\* return image
ReturnImage ==
    /\ sky.pc = "return"
    /\ sky' = [sky EXCEPT !.pc = "returned"]
    /\ UNCHANGED <<objects, _index, flip_g2, ret, qz>>

SkyNext ==
    \/ ComputeSkyCounts
    \/ CopyImage
    \/ AllocatePhotons
    \/ GeneratePhotonX
    \/ ScalePhotonX
    \/ SetSkyLevel
    \/ AddNoise
    \/ SkipNoise
    \/ ReturnImage

SkySpec == SkyInit /\ [][SkyNext]_vars

(***************************************************************************)
(* Claims about addNoiseAndBackground (SkySpec).                           *)
(***************************************************************************)
\* The call is over: it returned or it raised.
CallOver == sky.pc \in {"returned", "raised"}

\* The state the design ends the call in.
FinalState ==
    IF sky.addNoise THEN "Noised"
    ELSE IF sky.addBackground THEN "Accumulated"
    ELSE "Computed"

\* The number of times event e occurs in the trace.
Count(e) == Cardinality({i \in DOMAIN sky.trace : sky.trace[i] = e})

\* Event e occurs in the trace before position i.
Before(e, i) == \E j \in 1..(i - 1) : sky.trace[j] = e

\* C6: for every combination of the flags the call runs to completion and
\* returns an image, in state Noised if noise is asked for, Accumulated if
\* only background is, Computed if neither.
C6_CallCompletes ==
    CallOver => (sky.pc = "returned" /\ sky.state = FinalState)

\* C7: the sky count is computed before anything else; the photons go to
\* the sensor exactly once if and only if addBackground, and after their
\* positions, flux, wavelengths and angles are set; the noise is applied
\* exactly once if and only if addNoise, and never before the accumulation.
C7_StepOrder ==
    /\ sky.trace # <<>> => sky.trace[1] = "sky_counts"
    /\ CallOver => Count("accumulate") = (IF sky.addBackground THEN 1 ELSE 0)
    /\ CallOver => Count("noise") = (IF sky.addNoise THEN 1 ELSE 0)
    /\ \A i \in DOMAIN sky.trace :
         sky.trace[i] = "accumulate"
           => /\ Before("scale_x", i) /\ Before("scale_y", i)
              /\ Before("flux", i) /\ Before("wavelengths", i)
              /\ Before("angles", i)
    /\ \A i \in DOMAIN sky.trace :
         sky.trace[i] = "noise"
           => ~\E j \in DOMAIN sky.trace : j > i /\ sky.trace[j] = "accumulate"

\* C8: a noise model that has been built has the pedestal 0 if the call has
\* addBackground and skyCounts times the gain otherwise, and the gain and
\* read noise of photParams.
C8_NoiseModelPedestal ==
    sky.noiseModel # NoNoiseModel
      => /\ sky.noiseModel.sky_level =
              (IF sky.addBackground THEN 0
               ELSE sky.skyCounts * sky.photParams.gain)
         /\ sky.noiseModel.gain = sky.photParams.gain
         /\ sky.noiseModel.read_noise = sky.photParams.readnoise

\* A noise model built without background, for 90 counts at gain 2.
C8_Witness ==
    /\ sky.pc = "returned" /\ sky.addNoise /\ ~sky.addBackground
    /\ sky.skyCounts = 90 /\ sky.photParams.gain = 2
    /\ sky.noiseModel = [sky_level |-> 180, gain |-> 2, read_noise |-> 5]

\* C9: a call with addBackground ends with a batch of N*d photons (N pixels,
\* d = 100) that all carry the flux weight skyCounts/d, whose sum is the
\* sky counts of the N pixels.
C9_PhotonBatch ==
    (CallOver /\ sky.addBackground)
      => LET npix == sky.image.ny * sky.image.nx
             flux == sky.photon_array.flux
         IN  /\ sky.photon_array.N = npix * photons_per_pixel
             /\ \A i \in DOMAIN flux : flux[i] = flux[1]
             /\ DOMAIN flux = 1..sky.photon_array.N
             /\ sky.photon_array.N * flux[1][1]
                  = npix * sky.skyCounts * flux[1][2]

\* C12: no step of the call changes the caller's image, whatever the flags
\* and also in a call that raises; the local image comes to be, and changes,
\* only once the sky count is computed and the name `image` is bound to the
\* copy.
C12_CallerImageUntouched ==
    [][/\ sky'.image = sky.image
       /\ sky'.local # sky.local
            => (sky'.bound = "copy" /\ sky.state # "Idle")]_vars

\* A returned call whose noise changed the copy of a 2x2 image at level 7,
\* and the caller's image still at level 7.
C12_Witness ==
    /\ sky.pc = "returned" /\ sky.addNoise /\ sky.bound = "copy"
    /\ sky.image.ny = 2 /\ sky.image.nx = 2
    /\ \A p \in DOMAIN sky.image.array : sky.image.array[p] = 7
    /\ \A p \in DOMAIN sky.local.array : sky.local.array[p] = 8

====
